---- MODULE Spec2Model ----
(***************************************************************************)
(* FoodShare request lifecycle: the createRequest / updateStatus handlers  *)
(* of backend/controllers/requestController.js (stored in                  *)
(* src/backend/routes/requests.js), the Request model methods and the      *)
(* deleteFood handler of the food controller.                              *)
(*                                                                         *)
(* Every handler is an async function: it runs up to its next `await` in   *)
(* one step of the event loop, so each action below is the code between    *)
(* two awaits, and handlers of different HTTP requests interleave at those *)
(* points.  `Spec` runs the request handlers concurrently on one listing;  *)
(* `SpecSeq` runs every handler, one HTTP call at a time, on two listings  *)
(* (the sequential contract of each operation); `SpecFail` does the same   *)
(* with a store whose listing operations may reject.                       *)
(*                                                                         *)
(* Chat: the Chat model (findOrCreateChat, addMessage, markAsRead,         *)
(* isParticipant, validation and the pre('save') hook) and the message     *)
(* routes of backend/routes/chat.js.  `SpecChat` runs findOrCreateChat     *)
(* calls concurrently; `SpecChatSeq` runs the post / read routes one call  *)
(* at a time on two stored chats, `SpecChatRace` runs message posts        *)
(* concurrently on them.                                                   *)
(*                                                                         *)
(* Gateway: backend/config/socket.js.  `SpecGate` is the life of a         *)
(* connection (handshake, rooms, typing, presence, disconnect);            *)
(* `SpecSend` runs send-message handlers concurrently on admitted          *)
(* connections, each handler split at its awaits; `SpecOutsider` does the  *)
(* same with a connection of a user who is no participant of the chat.     *)
(***************************************************************************)
EXTENDS Integers, Sequences, FiniteSets, TLC

\* ---------------------------------------------------------------- bounds
MaxRequests == 2

\* ---------------------------------------------------------------- universe
Donors    == {"d1", "d2"}
Receivers == {"r1", "r2"}
Users     == Donors \cup Receivers
Listings  == {"f1", "f2"}   \* listings of SpecSeq; Spec races on "f1" alone
NoListing == "f0"
Procs     == {1, 2}

Role(u) == IF u \in Donors THEN "donor" ELSE "receiver"

ListingDonor(f) == IF f = "f1" THEN "d1" ELSE "d2"

RequestStatuses == {"pending", "accepted", "rejected", "cancelled", "completed"}
FoodStatuses    == {"available", "requested", "claimed", "expired", "cancelled"}
StatusInputs    == {"accepted", "rejected", "cancelled", "completed", "bogus"}
TerminalStatuses == {"rejected", "cancelled", "completed"}
ActiveStatuses   == {"pending", "accepted"}

VARIABLES
  foods,      \* Food collection: listing id -> document
  requests,   \* Request collection: sequence of documents, index = _id
  h,          \* per HTTP handler slot: position, local variables, response
  chats,      \* Chat collection: sequence of documents, ChatIds[index] = _id
  ch,         \* per chat handler slot: position, local variables, response
  sockets,    \* Socket.IO connections: handshake state, user, rooms, inbox
  gw,         \* per send-message handler slot: position, local variables
  sent        \* number of send-message events the clients have emitted

reqVars  == <<foods, requests, h>>
chatVars == <<chats, ch>>
gateVars == <<sockets, gw, sent>>
vars == <<foods, requests, h, chats, ch, sockets, gw, sent>>

NullFood == [donor |-> "none", status |-> "none", isAvailable |-> FALSE,
             isActive |-> FALSE]
NullReq  == [foodItem |-> "none", donor |-> "none", receiver |-> "none",
             status |-> "none"]

Idle == [pc |-> "idle", op |-> "none", user |-> "none", food |-> "none",
         rid |-> 0, status |-> "none", rdoc |-> NullReq, fdoc |-> NullFood,
         readAt |-> 0, code |-> 0]

\* res.status(c).json(...) / next(new AppError(..., c)): the handler hp of
\* slot p answers with code c; its locals are gone
Respond(p, hp, c) ==
  h' = [h EXCEPT ![p] = [Idle EXCEPT !.pc = "done", !.op = hp.op, !.code = c]]

\* the handler of slot p moves on to its next await with locals hp
Continue(p, hp) ==
  h' = [h EXCEPT ![p] = hp]

\* handler slots are anonymous: a new call takes the lowest idle one
Free(p) == /\ h[p].pc = "idle"
           /\ \A q \in Procs : q < p => h[q].pc # "idle"

\* the response has been sent and the slot serves the next call
Reply(p) ==
  /\ h[p].pc = "done"
  /\ h' = [h EXCEPT ![p] = Idle]
  /\ UNCHANGED <<foods, requests>>
  /\ UNCHANGED <<chatVars, gateVars>>

\* ---------------------------------------------------------------- models
\* foodSchema defaults of a freshly created listing
NewFood(f) == [donor |-> ListingDonor(f), status |-> "available",
               isAvailable |-> TRUE, isActive |-> TRUE]

\* Food.findById / Request.findById
FoodFindById(f) == IF f \in DOMAIN foods THEN foods[f] ELSE NullFood
RequestFindById(r) == IF r \in 1..Len(requests) THEN requests[r] ELSE NullReq

\* document.save(): only the paths whose assigned value differs from the
\* loaded one are written
SaveFood(stored, loaded, assigned) ==
  [stored EXCEPT
     !.status      = IF assigned.status # loaded.status
                     THEN assigned.status ELSE @,
     !.isAvailable = IF assigned.isAvailable # loaded.isAvailable
                     THEN assigned.isAvailable ELSE @,
     !.isActive    = IF assigned.isActive # loaded.isActive
                     THEN assigned.isActive ELSE @]

SaveRequest(stored, loaded, assigned) ==
  [stored EXCEPT
     !.status = IF assigned.status # loaded.status
                THEN assigned.status ELSE @]

\* Request model methods: each assigns this.status and saves
accept(doc)       == [doc EXCEPT !.status = "accepted"]
reject(doc)       == [doc EXCEPT !.status = "rejected"]
cancel(doc)       == [doc EXCEPT !.status = "cancelled"]
markPickedUp(doc) == [doc EXCEPT !.status = "completed"]

\* the count without its foodItem filter
ActiveCountAnyListing(f) ==
  Cardinality({r \in 1..Len(requests) : requests[r].status \in ActiveStatuses})

\* Request.find({foodItem, status: {$in: ['pending','accepted']}}).countDocuments()
ActiveCount(f) ==
  Cardinality({r \in 1..Len(requests) :
                 /\ requests[r].foodItem = f
                 /\ requests[r].status \in ActiveStatuses})

\* ---------------------------------------------------------------- createRequest
\* the guard without its status test
CreateAllowedAnyStatus(food) ==
  /\ food # NullFood
  /\ food.isActive

CreateAllowed(food) ==
  /\ food # NullFood
  /\ food.isActive
  /\ food.status = "available"

InFlightCreates == Cardinality({q \in Procs : h[q].pc = "c_create"})

CreateFind(p, u, f) ==
  /\ Free(p)
  /\ Role(u) \in {"receiver", "admin"}
  /\ Len(requests) + InFlightCreates < MaxRequests
  /\ LET food == FoodFindById(f)
         me   == [Idle EXCEPT !.op = "create", !.user = u, !.food = f,
                              !.readAt = Len(requests)]
     IN  IF ~CreateAllowed(food)
         THEN Respond(p, me, 400)
         ELSE Continue(p, [me EXCEPT !.pc = "c_create", !.fdoc = food])
  /\ UNCHANGED <<foods, requests>>
  /\ UNCHANGED <<chatVars, gateVars>>

CreateInsert(p) ==
  /\ h[p].pc = "c_create"
  /\ requests' = Append(requests,
                        [foodItem |-> h[p].food, donor |-> h[p].fdoc.donor,
                         receiver |-> h[p].user, status |-> "pending"])
  /\ Continue(p, [h[p] EXCEPT !.pc = "c_save", !.rid = Len(requests) + 1,
                                !.user = "none"])
  /\ UNCHANGED foods
  /\ UNCHANGED <<chatVars, gateVars>>

CreateFoodSave(p) ==
  /\ h[p].pc = "c_save"
  /\ LET f == h[p].food
     IN  foods' = [foods EXCEPT ![f] =
                     SaveFood(@, h[p].fdoc,
                              [h[p].fdoc EXCEPT !.status = "requested"])]
  /\ Respond(p, h[p], 201)
  /\ UNCHANGED requests
  /\ UNCHANGED <<chatVars, gateVars>>

\* ---------------------------------------------------------------- updateStatus
IsDonor(doc, u)    == doc.donor = u
IsReceiver(doc, u) == doc.receiver = u

\* the branches with `cancelled` open to every caller
UpdateDeniedCancelOpen(doc, u, s) ==
  CASE s = "accepted"  -> IF ~IsDonor(doc, u) THEN 403 ELSE 0
    [] s = "rejected"  -> IF ~IsDonor(doc, u) THEN 403 ELSE 0
    [] s = "cancelled" -> 0
    [] s = "completed" -> IF ~IsDonor(doc, u) THEN 403 ELSE 0
    [] OTHER           -> 400

\* the response code of the branch taken on `status`; 0 = the branch proceeds
UpdateDenied(doc, u, s) ==
  CASE s = "accepted"  -> IF ~IsDonor(doc, u) THEN 403 ELSE 0
    [] s = "rejected"  -> IF ~IsDonor(doc, u) THEN 403 ELSE 0
    [] s = "cancelled" -> IF ~IsReceiver(doc, u) /\ ~IsDonor(doc, u)
                          THEN 403 ELSE 0
    [] s = "completed" -> IF ~IsDonor(doc, u) THEN 403 ELSE 0
    [] OTHER           -> 400

UpdateMethod(doc, s) ==
  CASE s = "accepted"  -> accept(doc)
    [] s = "rejected"  -> reject(doc)
    [] s = "cancelled" -> cancel(doc)
    [] s = "completed" -> markPickedUp(doc)
    [] OTHER           -> doc

\* Request.findById resolves; the branch on `status` checks the caller and
\* calls the model method, whose save() is the next await
UpdateFind(p, u, r, s) ==
  /\ Free(p)
  /\ LET doc == RequestFindById(r)
         me  == [Idle EXCEPT !.op = "update", !.user = u, !.rid = r,
                             !.status = s]
     IN  IF doc = NullReq
         THEN Respond(p, me, 404)
         ELSE IF UpdateDenied(doc, u, s) # 0
         THEN Respond(p, me, UpdateDenied(doc, u, s))
         ELSE Continue(p, [me EXCEPT !.pc = "u_apply", !.rdoc = doc,
                                     !.food = doc.foodItem])
  /\ UNCHANGED <<foods, requests>>
  /\ UNCHANGED <<chatVars, gateVars>>

\* request.save() of accept / reject / cancel / markPickedUp
UpdateApply(p) ==
  /\ h[p].pc = "u_apply"
  /\ requests' = [requests EXCEPT ![h[p].rid] =
                    SaveRequest(@, h[p].rdoc,
                                UpdateMethod(h[p].rdoc, h[p].status))]
  /\ Continue(p, [h[p] EXCEPT !.pc = "u_food", !.user = "none", !.rid = 0,
                               !.rdoc = NullReq])
  /\ UNCHANGED foods
  /\ UNCHANGED <<chatVars, gateVars>>

UpdateFood(p) ==
  /\ h[p].pc = "u_food"
  /\ LET food == FoodFindById(h[p].food)
     IN  CASE h[p].status = "accepted" ->
                Continue(p, [h[p] EXCEPT !.pc = "u_fsave", !.fdoc = food])
           [] h[p].status \in {"cancelled", "rejected"} ->
                Continue(p, [h[p] EXCEPT !.pc = "u_count", !.fdoc = food])
           [] OTHER ->
                Respond(p, h[p], 200)
  /\ UNCHANGED <<foods, requests>>
  /\ UNCHANGED <<chatVars, gateVars>>

UpdateCount(p) ==
  /\ h[p].pc = "u_count"
  /\ IF ActiveCount(h[p].food) = 0
     THEN Continue(p, [h[p] EXCEPT !.pc = "u_fsave"])
     ELSE Respond(p, h[p], 200)
  /\ UNCHANGED <<foods, requests>>
  /\ UNCHANGED <<chatVars, gateVars>>

\* the accepted branch without its isAvailable assignment
UpdateFoodAssignStatusOnly(food, s) ==
  IF s = "accepted"
  THEN [food EXCEPT !.status = "claimed"]
  ELSE [food EXCEPT !.status = "available", !.isAvailable = TRUE]

\* the assignments made to the loaded listing before food.save()
UpdateFoodAssign(food, s) ==
  IF s = "accepted"
  THEN [food EXCEPT !.status = "claimed", !.isAvailable = FALSE]
  ELSE [food EXCEPT !.status = "available", !.isAvailable = TRUE]

UpdateFoodSave(p) ==
  /\ h[p].pc = "u_fsave"
  /\ LET f == h[p].food
     IN  foods' = [foods EXCEPT ![f] =
                     SaveFood(@, h[p].fdoc,
                              UpdateFoodAssign(h[p].fdoc, h[p].status))]
  /\ Respond(p, h[p], 200)
  /\ UNCHANGED requests
  /\ UNCHANGED <<chatVars, gateVars>>

\* ---------------------------------------------------------------- rejected awaits
\* the response code of a handler whose await rejects (ValidationError,
\* VersionError, pre-save hook error, store error), passed to next(err) by
\* asyncHandler
SaveError == 500

\* createRequest when Request.create resolves and the food.save() after it
\* rejects: asyncHandler passes the error to next(err); of a call that
\* overlaps no other, the two awaits are one step
CreateSaveFails(p) ==
  /\ h[p].pc = "c_create"
  /\ requests' = Append(requests,
                        [foodItem |-> h[p].food, donor |-> h[p].fdoc.donor,
                         receiver |-> h[p].user, status |-> "pending"])
  /\ Respond(p, h[p], SaveError)
  /\ UNCHANGED foods
  /\ UNCHANGED <<chatVars, gateVars>>

\* updateStatus when the request's save() resolves and Food.findById, the
\* count or the food.save() after it rejects
UpdateFoodFails(p) ==
  /\ h[p].pc = "u_apply"
  /\ requests' = [requests EXCEPT ![h[p].rid] =
                    SaveRequest(@, h[p].rdoc,
                                UpdateMethod(h[p].rdoc, h[p].status))]
  /\ Respond(p, h[p], SaveError)
  /\ UNCHANGED foods
  /\ UNCHANGED <<chatVars, gateVars>>

\* ---------------------------------------------------------------- deleteFood
DeleteFind(p, u, f) ==
  /\ Free(p)
  /\ LET food == FoodFindById(f)
         me   == [Idle EXCEPT !.op = "delete", !.user = u, !.food = f]
     IN  IF food = NullFood
         THEN Respond(p, me, 404)
         ELSE IF food.donor # u /\ Role(u) # "admin"
         THEN Respond(p, me, 403)
         ELSE Continue(p, [me EXCEPT !.pc = "d_save", !.fdoc = food])
  /\ UNCHANGED <<foods, requests>>
  /\ UNCHANGED <<chatVars, gateVars>>

DeleteSave(p) ==
  /\ h[p].pc = "d_save"
  /\ LET f == h[p].food
     IN  foods' = [foods EXCEPT ![f] =
                     SaveFood(@, h[p].fdoc,
                              [h[p].fdoc EXCEPT !.isActive = FALSE,
                                                !.status = "cancelled"])]
  /\ Respond(p, h[p], 200)
  /\ UNCHANGED requests
  /\ UNCHANGED <<chatVars, gateVars>>

\* ---------------------------------------------------------------- Chat model
\* the users and contents the chat calls are made with
ChatUsers == {"d1", "r1", "r2"}
Contents  == {"hi", "", " ", "x1001"}

\* String.prototype.trim and .length of the contents above
Trim(c) == IF c = " " THEN "" ELSE c
ContentLength(c) == CASE c = ""      -> 0
                      [] c = " "     -> 1
                      [] c = "x1001" -> 1001
                      [] OTHER       -> 2

\* _id of the i-th document of the Chat collection
ChatIds == <<"c1", "c2", "c3", "c4">>
NoChat  == "c0"

NullMsg  == [sender |-> "none", content |-> "none", isRead |-> FALSE]
EmptyMap == [k \in {} |-> 0]
NullChat == [participants |-> << >>, foodItem |-> "none", messages |-> << >>,
             lastMessage |-> NullMsg, unreadCount |-> EmptyMap, v |-> 0]

\* `again` notes that the call repeats the slot's previous call, which answered 200
ChatIdle == [pc |-> "idle", op |-> "none", user |-> "none", other |-> "none",
             food |-> "none", cid |-> 0, content |-> "none",
             doc |-> NullChat, again |-> FALSE, code |-> 0]

\* the handler hp of slot p answers with code c; its locals are gone and the
\* slot holds the response until its next call
ChatRespond(p, hp, c) ==
  ch' = [ch EXCEPT ![p] = [ChatIdle EXCEPT !.pc = "done", !.op = hp.op,
                                           !.user = hp.user, !.cid = hp.cid,
                                           !.again = hp.again, !.code = c]]

ChatContinue(p, hp) ==
  ch' = [ch EXCEPT ![p] = hp]

\* a new call takes the lowest slot that runs no handler
ChatFree(p) == /\ ch[p].pc \in {"idle", "done"}
               /\ \A q \in Procs : q < p => ch[q].pc \notin {"idle", "done"}

\* the call (op, u, i) on slot p repeats the call the slot has just answered
Repeats(p, op, u, i) ==
  /\ ch[p].pc = "done" /\ ch[p].code = 200
  /\ ch[p].op = op /\ ch[p].user = u /\ ch[p].cid = i

\* Map.get(k) || 0 and Map.set(k, x) of unreadCount
MapGet(m, k) == IF k \in DOMAIN m THEN m[k] ELSE 0
MapSet(m, k, x) == [j \in DOMAIN m \cup {k} |-> IF j = k THEN x ELSE m[j]]

Range(s) == {s[i] : i \in 1..Len(s)}

\* isParticipant that looks at the first participant only
isParticipantFirst(doc, u) == doc.participants # << >> /\ doc.participants[1] = u

\* chatSchema.methods.isParticipant
isParticipant(doc, u) == \E i \in 1..Len(doc.participants) : doc.participants[i] = u

\* Chat.findById: 0 when no document has that _id
ChatIndex(id) ==
  IF \E i \in 1..Len(chats) : ChatIds[i] = id
  THEN CHOOSE i \in 1..Len(chats) : ChatIds[i] = id
  ELSE 0

ChatFindById(id) == IF ChatIndex(id) = 0 THEN NullChat ELSE chats[ChatIndex(id)]

\* messageSchema validation of one subdocument: content required after trim,
\* maxlength 1000
MaxContentLength == 1000

ValidMessage(m) ==
  /\ m.content # ""
  /\ ContentLength(m.content) <= MaxContentLength

\* a message subdocument cast from {sender, content}: trim setter, isRead default
NewMessage(senderId, content) ==
  [sender |-> senderId, content |-> Trim(content), isRead |-> FALSE]

\* participants.forEach of addMessage from position i on
RECURSIVE BumpUnread(_, _, _, _)
BumpUnread(m, parts, senderId, i) ==
  IF i > Len(parts) THEN m
  ELSE BumpUnread(IF parts[i] # senderId
                  THEN MapSet(m, parts[i], MapGet(m, parts[i]) + 1)
                  ELSE m,
                  parts, senderId, i + 1)

\* addMessage with the sender counted like every other participant
addMessageBumpAll(doc, senderId, content) ==
  [doc EXCEPT !.messages    = Append(@, NewMessage(senderId, content)),
              !.lastMessage = NewMessage(senderId, content),
              !.unreadCount = BumpUnread(@, doc.participants, "none", 1)]

\* chatSchema.methods.addMessage, up to its save()
addMessage(doc, senderId, content) ==
  [doc EXCEPT !.messages    = Append(@, NewMessage(senderId, content)),
              !.lastMessage = NewMessage(senderId, content),
              !.unreadCount = BumpUnread(@, doc.participants, senderId, 1)]

\* markAsRead that flags only the oldest unread message
markAsReadFirst(doc, userId) ==
  LET unread == {i \in 1..Len(doc.messages) :
                   ~doc.messages[i].isRead /\ doc.messages[i].sender # userId}
  IN  [doc EXCEPT !.messages    = [i \in 1..Len(@) |->
                                     IF i \in unread /\ \A j \in unread : i <= j
                                     THEN [@[i] EXCEPT !.isRead = TRUE] ELSE @[i]],
                  !.unreadCount = MapSet(@, userId, 0)]

\* markAsRead that sets the flag on the user's own messages too
markAsReadAll(doc, userId) ==
  [doc EXCEPT !.messages    = [i \in 1..Len(@) |-> [@[i] EXCEPT !.isRead = TRUE]],
              !.unreadCount = MapSet(@, userId, 0)]

\* chatSchema.methods.markAsRead, up to its save()
markAsRead(doc, userId) ==
  [doc EXCEPT !.messages    = [i \in 1..Len(@) |->
                                 IF ~@[i].isRead /\ @[i].sender # userId
                                 THEN [@[i] EXCEPT !.isRead = TRUE] ELSE @[i]],
              !.unreadCount = MapSet(@, userId, 0)]

\* ---------------------------------------------------------------- chat.save()
MaxChats    == 2
MaxMessages == 3

HasDuplicates(parts) ==
  \E i, j \in 1..Len(parts) : i < j /\ parts[i] = parts[j]

\* [...new Set(participants)]: the first occurrence of every element
RECURSIVE Unique(_)
Unique(parts) ==
  IF parts = << >> THEN << >>
  ELSE LET init == Unique(SubSeq(parts, 1, Len(parts) - 1))
           last == parts[Len(parts)]
       IN  IF last \in Range(init) THEN init ELSE Append(init, last)

\* pre('save'): the Set is keyed by object identity, so two entries naming one
\* user collapse only when they are the same ObjectId object; a document read
\* from the store never holds the same object twice
PreSaveParticipants(parts, isNew) ==
  IF isNew /\ HasDuplicates(parts) THEN {parts, Unique(parts)} ELSE {parts}

\* validation of the paths a save() writes, and the pre('save') length test
ChatValid(loaded, assigned) ==
  /\ assigned.foodItem # "none"
  /\ \A i \in (Len(loaded.messages) + 1)..Len(assigned.messages) :
       ValidMessage(assigned.messages[i])
  /\ Len(assigned.participants) >= 2

\* elements of the loaded array that were modified in place
PositionalSets(loaded, assigned) ==
  {i \in 1..Len(loaded.messages) : assigned.messages[i] # loaded.messages[i]}

\* a positional $set carries the loaded __v in its filter
VersionConflict(stored, loaded, assigned) ==
  PositionalSets(loaded, assigned) # {} /\ stored.v # loaded.v

SaveChatOk(stored, loaded, assigned) ==
  ChatValid(loaded, assigned) /\ ~VersionConflict(stored, loaded, assigned)

\* the update a save() of an existing document sends: $push of the appended
\* messages (with $inc __v), $set of the modified elements, of lastMessage
\* when it was assigned (setLast), and of the unreadCount keys that were set
SaveChat(stored, loaded, assigned, setLast) ==
  LET pushed == SubSeq(assigned.messages, Len(loaded.messages) + 1,
                       Len(assigned.messages))
      sets   == PositionalSets(loaded, assigned)
      keys   == {k \in DOMAIN assigned.unreadCount :
                   \/ k \notin DOMAIN loaded.unreadCount
                   \/ assigned.unreadCount[k] # loaded.unreadCount[k]}
  IN  [stored EXCEPT
         !.messages    = [i \in 1..Len(@) |->
                            IF i \in sets THEN assigned.messages[i] ELSE @[i]]
                         \o pushed,
         !.lastMessage = IF setLast THEN assigned.lastMessage ELSE @,
         !.unreadCount = [k \in DOMAIN @ \cup keys |->
                            IF k \in keys THEN assigned.unreadCount[k] ELSE @[k]],
         !.v           = IF pushed # << >> THEN @ + 1 ELSE @]

\* ---------------------------------------------------------------- routes/chat.js
RECURSIVE SumLen(_)
SumLen(i) == IF i = 0 THEN 0 ELSE Len(chats[i].messages) + SumLen(i - 1)

TotalMessages == SumLen(Len(chats))

InFlightPosts == Cardinality({q \in Procs : ch[q].pc = "m_save"})

\* POST /:id/messages up to its first await and the checks after it
PostFind(p, u, id, content) ==
  /\ ChatFree(p)
  /\ LET doc == ChatFindById(id)
         me  == [ChatIdle EXCEPT !.op = "post", !.user = u,
                                 !.cid = ChatIndex(id), !.content = content]
     IN  IF doc = NullChat
         THEN ChatRespond(p, me, 404)
         ELSE IF ~isParticipant(doc, u)
         THEN ChatRespond(p, me, 403)
         ELSE /\ TotalMessages + InFlightPosts < MaxMessages
              /\ ChatContinue(p, [me EXCEPT !.pc = "m_save", !.doc = doc])
  /\ UNCHANGED <<chats, reqVars, gateVars>>

\* chat.addMessage(...): the in-memory changes and the save()
PostSave(p) ==
  /\ ch[p].pc = "m_save"
  /\ LET i        == ch[p].cid
         assigned == addMessage(ch[p].doc, ch[p].user, ch[p].content)
     IN  IF SaveChatOk(chats[i], ch[p].doc, assigned)
         THEN /\ chats' = [chats EXCEPT ![i] =
                             SaveChat(@, ch[p].doc, assigned, TRUE)]
              /\ ChatRespond(p, ch[p], 201)
         ELSE /\ chats' = chats
              /\ ChatRespond(p, ch[p], SaveError)
  /\ UNCHANGED <<reqVars, gateVars>>

\* PUT /:id/read up to its first await and the checks after it
ReadFind(p, u, id) ==
  /\ ChatFree(p)
  /\ LET doc == ChatFindById(id)
         me  == [ChatIdle EXCEPT !.op = "read", !.user = u,
                                 !.cid = ChatIndex(id),
                                 !.again = Repeats(p, "read", u, ChatIndex(id))]
     IN  IF doc = NullChat
         THEN ChatRespond(p, me, 404)
         ELSE IF ~isParticipant(doc, u)
         THEN ChatRespond(p, me, 403)
         ELSE ChatContinue(p, [me EXCEPT !.pc = "r_save", !.doc = doc])
  /\ UNCHANGED <<chats, reqVars, gateVars>>

\* chat.markAsRead(...): the in-memory changes and the save()
ReadSave(p) ==
  /\ ch[p].pc = "r_save"
  /\ LET i        == ch[p].cid
         assigned == markAsRead(ch[p].doc, ch[p].user)
     IN  IF SaveChatOk(chats[i], ch[p].doc, assigned)
         THEN /\ chats' = [chats EXCEPT ![i] =
                             SaveChat(@, ch[p].doc, assigned, FALSE)]
              /\ ChatRespond(p, ch[p], 200)
         ELSE /\ chats' = chats
              /\ ChatRespond(p, ch[p], SaveError)
  /\ UNCHANGED <<reqVars, gateVars>>

\* ---------------------------------------------------------------- findOrCreateChat
\* findOne({participants: {$all: [a, b]}, foodItem: f}): the first match
ChatMatches(doc, a, b, f) ==
  {a, b} \subseteq Range(doc.participants) /\ doc.foodItem = f

ChatFindOne(a, b, f) ==
  IF \E i \in 1..Len(chats) : ChatMatches(chats[i], a, b, f)
  THEN CHOOSE i \in 1..Len(chats) :
         /\ ChatMatches(chats[i], a, b, f)
         /\ \A j \in 1..(i - 1) : ~ChatMatches(chats[j], a, b, f)
  ELSE 0

\* new Chat({participants, foodItem, messages: [], unreadCount: new Map()})
NewChat(parts, f) == [NullChat EXCEPT !.participants = parts, !.foodItem = f]

InFlightChatCreates == Cardinality({q \in Procs : ch[q].pc = "f_save"})

FocFind(p, a, b, f) ==
  /\ ChatFree(p)
  /\ LET i  == ChatFindOne(a, b, f)
         me == [ChatIdle EXCEPT !.op = "findOrCreate", !.user = a,
                                !.other = b, !.food = f]
     IN  IF i # 0
         THEN ChatRespond(p, [me EXCEPT !.cid = i], 200)
         ELSE /\ Len(chats) + InFlightChatCreates < MaxChats
              /\ ChatContinue(p, [me EXCEPT !.pc = "f_save"])
  /\ UNCHANGED <<chats, reqVars, gateVars>>

\* await chat.save() of the new document
FocSave(p) ==
  /\ ch[p].pc = "f_save"
  /\ LET doc == NewChat(<<ch[p].user, ch[p].other>>, ch[p].food)
     IN  IF ChatValid(NullChat, doc)
         THEN /\ \E parts \in PreSaveParticipants(doc.participants, TRUE) :
                   chats' = Append(chats, [doc EXCEPT !.participants = parts])
              /\ ChatRespond(p, [ch[p] EXCEPT !.cid = Len(chats) + 1], 200)
         ELSE /\ chats' = chats
              /\ ChatRespond(p, ch[p], SaveError)
  /\ UNCHANGED <<reqVars, gateVars>>

CallPost(p) == \E u \in ChatUsers, i \in 1..(Len(chats) + 1), c \in Contents :
                 PostFind(p, u, IF i > Len(chats) THEN NoChat ELSE ChatIds[i], c)

CallRead(p) == \E u \in ChatUsers, i \in 1..(Len(chats) + 1) :
                 ReadFind(p, u, IF i > Len(chats) THEN NoChat ELSE ChatIds[i])

CallFindOrCreate(p) == \E a, b \in ChatUsers, f \in Listings : FocFind(p, a, b, f)

ChatInit ==
  /\ chats = << >>
  /\ ch = [p \in Procs |-> ChatIdle]

\* ---------------------------------------------------------------- Socket.IO gateway
MaxSends == 2

Sockets == {1, 2, 3}

\* socket.handshake.auth.token: absent, not verifiable, signed for a user id
\* that no User document has, signed for d1, signed for r1
Tokens == {"", "bad", "t-u0", "t-d1", "t-r1"}

\* jwt.verify(token, secret).id; "throws" when verification fails
JwtVerify(t) == CASE t = "t-d1" -> "d1"
                  [] t = "t-r1" -> "r1"
                  [] t = "t-u0" -> "u0"
                  [] OTHER      -> "throws"

\* User.findById that resolves whatever the id
UserFindByIdAny(id) == id

\* User.findById(id): "none" when no user has that id
UserFindById(id) == IF id \in Users THEN id ELSE "none"

\* the arguments the clients send with join-chat, leave-chat and the typing
\* events, and the chatId / receiverId / content of send-message
RoomArgs     == {"c1", "r1"}
ChatIdArgs   == {"c1", NoChat}
ReceiverArgs == {"r1", "none"}
GateContents == <<"m1", "m2", "m3", "m4">>

NewSocket == [state |-> "new", token |-> "", user |-> "none", rooms |-> {},
              inbox |-> << >>, seen |-> {}]

GwIdle == [pc |-> "idle", sock |-> 0, user |-> "none", chatId |-> "none",
           receiverId |-> "none", content |-> "none", doc |-> NullChat]

GwFree(p) == /\ gw[p].pc = "idle"
             /\ \A q \in Procs : q < p => gw[q].pc # "idle"

Connected(s) == sockets[s].state = "connected"

\* the connections an emit reaches
AllConnected == {t \in Sockets : Connected(t)}
InRoom(room) == {t \in AllConnected : room \in sockets[t].rooms}
Others(s)    == AllConnected \ {s}

\* the sockets after event e has been written to the connections of `to`
Emit(socks, to, e) ==
  [t \in Sockets |-> IF t \in to
                     THEN [socks[t] EXCEPT !.inbox = Append(@, e)]
                     ELSE socks[t]]

\* the same for the presence and typing events, kept without their order
EmitSeen(socks, to, ev) ==
  [t \in Sockets |-> IF t \in to
                     THEN [socks[t] EXCEPT !.seen = @ \cup {ev}]
                     ELSE socks[t]]

\* io.use(...) up to `await User.findById`
Connect(s, token) ==
  /\ sockets[s].state = "new"
  /\ \A t \in Sockets : t < s => sockets[t].state # "new"
  /\ IF token = "" \/ JwtVerify(token) = "throws"
     THEN sockets' = [sockets EXCEPT ![s].state = "refused"]
     ELSE sockets' = [sockets EXCEPT ![s].state = "auth", ![s].token = token]
  /\ UNCHANGED <<gw, sent, reqVars, chatVars>>

\* User.findById resolves (or rejects: ok = FALSE); next() admits the
\* connection and io.on('connection') joins it to its personal room
Admit(s, ok) ==
  /\ sockets[s].state = "auth"
  /\ LET user == UserFindById(JwtVerify(sockets[s].token))
     IN  IF ~ok \/ user = "none"
         THEN sockets' = [sockets EXCEPT ![s].state = "refused", ![s].token = ""]
         ELSE sockets' = [sockets EXCEPT ![s].state = "connected",
                                         ![s].token = "",
                                         ![s].user  = user,
                                         ![s].rooms = {user}]
  /\ UNCHANGED <<gw, sent, reqVars, chatVars>>

JoinChat(s, room) ==
  /\ Connected(s)
  /\ sockets' = [sockets EXCEPT ![s].rooms = @ \cup {room}]
  /\ UNCHANGED <<gw, sent, reqVars, chatVars>>

LeaveChat(s, room) ==
  /\ Connected(s)
  /\ sockets' = [sockets EXCEPT ![s].rooms = @ \ {room}]
  /\ UNCHANGED <<gw, sent, reqVars, chatVars>>

\* typing-start / typing-stop: socket.to(chatId).emit
Typing(s, room, ev) ==
  /\ Connected(s)
  /\ sockets' = EmitSeen(sockets, InRoom(room) \ {s}, ev)
  /\ UNCHANGED <<gw, sent, reqVars, chatVars>>

\* set-online: socket.broadcast.emit('user-online')
SetOnline(s) ==
  /\ Connected(s)
  /\ sockets' = EmitSeen(sockets, Others(s), "user-online")
  /\ UNCHANGED <<gw, sent, reqVars, chatVars>>

\* the connection drops: it leaves every room, the disconnect handler
\* broadcasts user-offline
Disconnect(s) ==
  /\ Connected(s)
  /\ sockets' = [EmitSeen(sockets, Others(s), "user-offline")
                   EXCEPT ![s] = [NewSocket EXCEPT !.state = "closed"]]
  /\ UNCHANGED <<gw, sent, reqVars, chatVars>>

\* the event ev of the handler in slot p; `cause` is the error that
\* console.error logs with a message-error
GwEvent(p, ev, cause) ==
  [ev |-> ev, chatId |-> gw[p].chatId, content |-> gw[p].content,
   cause |-> cause]

\* a catch that emits message-error to the chat room
GwFailToRoom(p, socks, cause) ==
  /\ sockets' = Emit(socks, InRoom(gw[p].chatId) \cup ({gw[p].sock} \cap AllConnected),
                     GwEvent(p, "message-error", cause))
  /\ gw' = [gw EXCEPT ![p] = GwIdle]

\* catch (error): socket.emit('message-error') reaches the sending connection
\* alone, and only while it is connected
GwFail(p, socks, cause) ==
  /\ sockets' = Emit(socks, {gw[p].sock} \cap AllConnected,
                     GwEvent(p, "message-error", cause))
  /\ gw' = [gw EXCEPT ![p] = GwIdle]

\* socket.on('send-message') up to `await Chat.findById(chatId)`
SendMessage(p, s, chatId, content, receiverId) ==
  /\ GwFree(p)
  /\ Connected(s)
  /\ sent < MaxSends
  /\ sent' = sent + 1
  /\ gw' = [gw EXCEPT ![p] = [GwIdle EXCEPT !.pc = "g_find", !.sock = s,
                                            !.user = sockets[s].user,
                                            !.chatId = chatId,
                                            !.receiverId = receiverId,
                                            !.content = content]]
  /\ UNCHANGED <<sockets, reqVars, chatVars>>

\* the document `new Chat({participants: [socket.userId, receiverId],
\* messages: []})` builds: no foodItem
GwNewChat(userId, receiverId) ==
  [NullChat EXCEPT !.participants = <<userId, receiverId>>]

\* Chat.findById resolves (or rejects: ok = FALSE); without a chat the handler
\* builds one and awaits its save(), with one it pushes the message and
\* awaits the save()
GwFind(p, ok) ==
  /\ gw[p].pc = "g_find"
  /\ LET doc == ChatFindById(gw[p].chatId)
     IN  IF ~ok
         THEN GwFail(p, sockets, "MongoError")
         ELSE /\ gw' = [gw EXCEPT ![p].pc  = IF doc = NullChat THEN "g_create"
                                                               ELSE "g_save",
                                  ![p].doc = IF doc = NullChat
                                             THEN GwNewChat(gw[p].user,
                                                            gw[p].receiverId)
                                             ELSE doc]
              /\ sockets' = sockets
  /\ UNCHANGED <<sent, reqVars, chatVars>>

\* await chat.save() of the new chat
GwCreate(p, ok) ==
  /\ gw[p].pc = "g_create"
  /\ IF ok /\ ChatValid(NullChat, gw[p].doc) /\ Len(chats) < MaxChats
     THEN /\ \E parts \in PreSaveParticipants(gw[p].doc.participants, TRUE) :
               chats' = Append(chats, [gw[p].doc EXCEPT !.participants = parts])
          /\ gw' = [gw EXCEPT ![p].pc = "g_save"]
          /\ sockets' = sockets
     ELSE /\ GwFail(p, sockets, IF ChatValid(NullChat, gw[p].doc)
                                THEN "MongoError" ELSE "ValidationError")
          /\ chats' = chats
  /\ UNCHANGED <<ch, sent, reqVars>>

\* chat.messages.push(message): lastMessage and unreadCount are left alone
GwPush(doc, senderId, content) ==
  [doc EXCEPT !.messages = Append(@, NewMessage(senderId, content))]

\* the index in the collection of the chat the handler holds
GwChatIndex(p) ==
  IF gw[p].chatId = NoChat THEN Len(chats) ELSE ChatIndex(gw[p].chatId)

\* the store applies the update of `await chat.save()` (or the save rejects)
GwSave(p, ok) ==
  /\ gw[p].pc = "g_save"
  /\ LET i        == GwChatIndex(p)
         assigned == GwPush(gw[p].doc, gw[p].user, gw[p].content)
     IN  IF ok /\ SaveChatOk(chats[i], gw[p].doc, assigned)
         THEN /\ chats' = [chats EXCEPT ![i] =
                             SaveChat(@, gw[p].doc, assigned, FALSE)]
              /\ gw' = [gw EXCEPT ![p].pc = "g_emit", ![p].doc = NullChat]
              /\ sockets' = sockets
         ELSE /\ GwFail(p, sockets,
                        IF SaveChatOk(chats[i], gw[p].doc, assigned)
                        THEN "MongoError" ELSE "ValidationError")
              /\ chats' = chats
  /\ UNCHANGED <<ch, sent, reqVars>>

\* the handler resumes after the save(): io.to(chatId).emit('new-message'),
\* then socket.to(receiverId.toString()).emit('message-notification');
\* toString of an undefined receiverId throws into the catch
GwEmit(p) ==
  /\ gw[p].pc = "g_emit"
  /\ LET first == Emit(sockets, InRoom(gw[p].chatId),
                       GwEvent(p, "new-message", "none"))
     IN  IF gw[p].receiverId = "none"
         THEN GwFail(p, first, "TypeError")
         ELSE /\ sockets' = Emit(first, InRoom(gw[p].receiverId) \ {gw[p].sock},
                                 GwEvent(p, "message-notification", "none"))
              /\ gw' = [gw EXCEPT ![p] = GwIdle]
  /\ UNCHANGED <<sent, reqVars, chatVars>>

\* the content of the n-th send-message event: a text of its own
SendContents ==
  IF sent < Len(GateContents) THEN {GateContents[sent + 1]} ELSE {}

\* the events of a connection's life: handshake, rooms, typing, presence
ConnectionEvent(s) ==
  \/ \E token \in Tokens : Connect(s, token)
  \/ \E ok \in BOOLEAN : Admit(s, ok)
  \/ \E room \in RoomArgs : JoinChat(s, room)
  \/ \E room \in RoomArgs : LeaveChat(s, room)
  \/ \E room \in RoomArgs, ev \in {"user-typing", "user-stop-typing"} :
       Typing(s, room, ev)
  \/ SetOnline(s)
  \/ Disconnect(s)

\* a send-message event and the steps of its handler
SendEvent(s) ==
  \E p \in Procs, c \in ChatIdArgs, r \in ReceiverArgs, x \in SendContents :
    SendMessage(p, s, c, x, r)

StepGate(p) ==
  \/ \E ok \in BOOLEAN : GwFind(p, ok)
  \/ \E ok \in BOOLEAN : GwCreate(p, ok)
  \/ \E ok \in BOOLEAN : GwSave(p, ok)
  \/ GwEmit(p)

GateInit ==
  /\ sockets = [s \in Sockets |-> NewSocket]
  /\ gw = [p \in Procs |-> GwIdle]
  /\ sent = 0

\* ---------------------------------------------------------------- specification
CallCreate(p) == \E u \in Users, f \in DOMAIN foods \cup {NoListing} :
                   CreateFind(p, u, f)

CallUpdate(p) == \E u \in Users, r \in 1..(Len(requests) + 1), s \in StatusInputs :
                   UpdateFind(p, u, r, s)

CallDelete(p) == \E u \in Users, f \in DOMAIN foods \cup {NoListing} :
                   DeleteFind(p, u, f)

\* a handler resumes after an await
StepRequest(p) == \/ CreateInsert(p)
                  \/ CreateFoodSave(p)
                  \/ UpdateApply(p)
                  \/ UpdateFood(p)
                  \/ UpdateCount(p)
                  \/ UpdateFoodSave(p)

\* the request handlers of concurrent HTTP calls, interleaved at their awaits,
\* racing on one listing
Init ==
  /\ foods = [f \in {"f1"} |-> NewFood(f)]
  /\ requests = << >>
  /\ h = [p \in Procs |-> Idle]
  /\ ChatInit /\ GateInit

Next == \E p \in Procs : \/ CallCreate(p)
                         \/ CallUpdate(p)
                         \/ StepRequest(p)
                         \/ Reply(p)

Spec == Init /\ [][Next]_vars

\* every handler, one HTTP call at a time, on two listings
AllIdle == \A q \in Procs : h[q].pc = "idle"

\* the store two overlapping createRequest calls on "f1" leave behind (both
\* read the listing as available, both insert, both save `requested`)
TwoPending == << [foodItem |-> "f1", donor |-> "d1", receiver |-> "r1",
                  status |-> "pending"],
                 [foodItem |-> "f1", donor |-> "d1", receiver |-> "r2",
                  status |-> "pending"] >>

InitSeq ==
  /\ \/ /\ foods = [f \in Listings |-> NewFood(f)]
        /\ requests = << >>
     \/ /\ foods = [f \in Listings |->
                      IF f = "f1" THEN [NewFood(f) EXCEPT !.status = "requested"]
                                  ELSE NewFood(f)]
        /\ requests = TwoPending
  /\ h = [p \in Procs |-> Idle]
  /\ ChatInit /\ GateInit

NextSeq == \E p \in Procs : \/ AllIdle /\ CallCreate(p)
                            \/ AllIdle /\ CallUpdate(p)
                            \/ AllIdle /\ CallDelete(p)
                            \/ StepRequest(p)
                            \/ DeleteSave(p)
                            \/ Reply(p)

SpecSeq == InitSeq /\ [][NextSeq]_vars

\* the request handlers, one HTTP call at a time, with a store whose listing
\* operations may reject
NextFail == \E p \in Procs : \/ AllIdle /\ CallCreate(p)
                             \/ AllIdle /\ CallUpdate(p)
                             \/ StepRequest(p)
                             \/ CreateSaveFails(p)
                             \/ UpdateFoodFails(p)
                             \/ Reply(p)

SpecFail == InitSeq /\ [][NextFail]_vars

\* findOrCreateChat calls, interleaved at their awaits
RequestInit ==
  /\ foods = [f \in Listings |-> NewFood(f)]
  /\ requests = << >>
  /\ h = [p \in Procs |-> Idle]

InitChat == RequestInit /\ ChatInit /\ GateInit

NextChat == \E p \in Procs : \/ CallFindOrCreate(p)
                             \/ FocSave(p)

SpecChat == InitChat /\ [][NextChat]_vars

\* the chat routes, one HTTP call at a time, on the two chats that
\* findOrCreateChat("d1", "r1", "f1") and findOrCreateChat("r2", "d1", "f1")
\* have created
AllChatIdle == \A q \in Procs : ch[q].pc \in {"idle", "done"}

InitChatSeq ==
  /\ RequestInit /\ GateInit
  /\ chats = << NewChat(<<"d1", "r1">>, "f1"), NewChat(<<"r2", "d1">>, "f1") >>
  /\ ch = [p \in Procs |-> ChatIdle]

NextChatSeq == \E p \in Procs : \/ AllChatIdle /\ CallPost(p)
                                \/ AllChatIdle /\ CallRead(p)
                                \/ PostSave(p)
                                \/ ReadSave(p)

SpecChatSeq == InitChatSeq /\ [][NextChatSeq]_vars

\* message posts of concurrent HTTP calls, interleaved at their awaits, on
\* the same two chats
NextChatRace == \E p \in Procs : \/ CallPost(p)
                                 \/ PostSave(p)

SpecChatRace == InitChatSeq /\ [][NextChatRace]_vars

\* the gateway's connections: handshakes, room, typing and presence events
InitGate == RequestInit /\ ChatInit /\ GateInit

NextGate == \E s \in Sockets : ConnectionEvent(s)

SpecGate == InitGate /\ [][NextGate]_vars

\* send-message handlers interleaved at their awaits, on the chat
\* findOrCreateChat("d1", "r1", "f1") has created; connection 1 has been
\* admitted as d1, connection 2 as r1, connection 3 has been refused
InitSend ==
  /\ RequestInit
  /\ chats = << NewChat(<<"d1", "r1">>, "f1") >>
  /\ ch = [p \in Procs |-> ChatIdle]
  /\ sockets = [s \in Sockets |->
                  CASE s = 1 -> [NewSocket EXCEPT !.state = "connected",
                                                  !.user = "d1", !.rooms = {"d1"}]
                    [] s = 2 -> [NewSocket EXCEPT !.state = "connected",
                                                  !.user = "r1", !.rooms = {"r1"}]
                    [] OTHER -> [NewSocket EXCEPT !.state = "refused"]]
  /\ gw = [p \in Procs |-> GwIdle]
  /\ sent = 0

NextSend == \/ \E s \in Sockets : \/ JoinChat(s, "c1")
                                  \/ LeaveChat(s, "c1")
                                  \/ Disconnect(s)
                                  \/ SendEvent(s)
            \/ \E p \in Procs : StepGate(p)

SpecSend == InitSend /\ [][NextSend]_vars

\* the same handlers when connection 2 has been admitted as r2, who is no
\* participant of the chat of d1 and r1
InitOutsider ==
  /\ RequestInit
  /\ chats = << NewChat(<<"d1", "r1">>, "f1") >>
  /\ ch = [p \in Procs |-> ChatIdle]
  /\ sockets = [s \in Sockets |->
                  CASE s = 1 -> [NewSocket EXCEPT !.state = "connected",
                                                  !.user = "d1", !.rooms = {"d1"}]
                    [] s = 2 -> [NewSocket EXCEPT !.state = "connected",
                                                  !.user = "r2", !.rooms = {"r2"}]
                    [] OTHER -> [NewSocket EXCEPT !.state = "refused"]]
  /\ gw = [p \in Procs |-> GwIdle]
  /\ sent = 0

SpecOutsider == InitOutsider /\ [][NextSend]_vars

\* ---------------------------------------------------------------- claims
RequestIds == 1..Len(requests)

RequestsOn(f, statuses) ==
  {r \in RequestIds : requests[r].foodItem = f /\ requests[r].status \in statuses}

\* slot p takes a step
Moves(p) == h'[p] # h[p]

\* slot p is idle and receives a call of handler op in this step
Calls(p, op) == h[p].pc = "idle" /\ h'[p].op = op

\* slot p answers in this step / has answered op with code c
Answers(p) == h[p].pc # "done" /\ h'[p].pc = "done"

Answered(p, op, c) == h[p].pc = "done" /\ h[p].op = op /\ h[p].code = c

StoreUnchanged == requests' = requests /\ foods' = foods

\* C1: every listing has at most one request whose status is accepted, in
\* every reachable state.
C1_AtMostOneAccepted ==
  \A f \in DOMAIN foods : Cardinality(RequestsOn(f, {"accepted"})) <= 1

\* C2: of two createRequest calls that overlap on one listing exactly one
\* succeeds: a call that answers 201 is the only one that inserted a request
\* on the listing between its read of the listing and its answer.
InsertedSince(p) ==
  {r \in (h[p].readAt + 1)..Len(requests) : requests[r].foodItem = h[p].food}

C2_OneCreateWins ==
  [][\A p \in Procs :
       (h[p].pc = "c_save" /\ Answered(p, "create", 201)')
         => InsertedSince(p) = {h[p].rid}]_vars

\* C3: createRequest answers 400 and changes nothing when the listing is
\* missing, inactive or not available; otherwise it inserts exactly one
\* pending request (donor = the listing's donor, receiver = the caller),
\* then sets the listing's status to requested and answers 201.
Unavailable(f) ==
  \/ f \notin DOMAIN foods
  \/ ~foods[f].isActive
  \/ foods[f].status # "available"

C3_CreateContract ==
  [][\A p \in Procs :
       /\ Calls(p, "create") =>
            \A u \in Users, f \in DOMAIN foods \cup {NoListing} :
              CreateFind(p, u, f) =>
                IF Unavailable(f)
                THEN Answered(p, "create", 400)' /\ StoreUnchanged
                ELSE h'[p].pc = "c_create" /\ h'[p].user = u /\ h'[p].food = f
                     /\ StoreUnchanged
       /\ (h[p].pc = "c_create" /\ Moves(p)) =>
            /\ requests' = Append(requests,
                                  [foodItem |-> h[p].food,
                                   donor    |-> foods[h[p].food].donor,
                                   receiver |-> h[p].user,
                                   status   |-> "pending"])
            /\ foods' = foods
            /\ h'[p].pc = "c_save"
       /\ (h[p].pc = "c_save" /\ Moves(p)) =>
            /\ Answered(p, "create", 201)'
            /\ requests' = requests
            /\ foods' = [foods EXCEPT ![h[p].food].status = "requested"]]_vars

C3_Witness ==
  /\ \E p \in Procs : Answered(p, "create", 201)
  /\ \E f \in DOMAIN foods :
       /\ foods[f].status = "requested"
       /\ RequestsOn(f, {"pending"}) # {}
       /\ \E g \in DOMAIN foods : ~foods[g].isActive

\* C4: a request whose status is rejected, cancelled or completed never
\* changes status again.
C4_TerminalIsFinal ==
  [][\A r \in RequestIds :
       requests[r].status \in TerminalStatuses
         => requests'[r].status = requests[r].status]_vars

\* the status-update call of slot p, about to write the request, is refused:
\* it answers with an error code and leaves the store as it is
Refused(p) == /\ Answers(p)
              /\ h'[p].op = "update" /\ h'[p].code >= 400
              /\ StoreUnchanged

Writes(p, statuses) ==
  h[p].pc = "u_apply" /\ h[p].status \in statuses /\ Moves(p)

\* C5: accept and reject of a request that is not pending are refused with an
\* error and change neither the request nor the listing.
C5_AcceptRejectNeedPending ==
  [][\A p \in Procs :
       (Writes(p, {"accepted", "rejected"})
        /\ requests[h[p].rid].status # "pending") => Refused(p)]_vars

\* C6: complete of a request that is not accepted is refused with an error
\* and changes neither the request nor the listing.
C6_CompleteNeedsAccepted ==
  [][\A p \in Procs :
       (Writes(p, {"completed"})
        /\ requests[h[p].rid].status # "accepted") => Refused(p)]_vars

\* C7: cancel of a rejected, cancelled or completed request is refused and
\* changes neither the request nor the listing.
C7_CancelNeedsActive ==
  [][\A p \in Procs :
       (Writes(p, {"cancelled"})
        /\ requests[h[p].rid].status \in TerminalStatuses) => Refused(p)]_vars

\* C8: accept, reject and complete by a user who is not the request's donor,
\* and cancel by a user who is neither its donor nor its receiver, answer 403
\* and change neither the request nor the listing.
NotAuthorized(u, r, s) ==
  \/ s \in {"accepted", "rejected", "completed"} /\ requests[r].donor # u
  \/ s = "cancelled" /\ requests[r].donor # u /\ requests[r].receiver # u

C8_ForbiddenChangesNothing ==
  [][\A p \in Procs :
       Calls(p, "update") =>
         /\ h'[p].pc # "done" =>
              ~NotAuthorized(h'[p].user, h'[p].rid, h'[p].status)
         /\ h'[p].pc = "done" => StoreUnchanged
         /\ (h'[p].pc = "done" /\ h'[p].code # 403) =>
              \A u \in Users, r \in RequestIds, s \in StatusInputs :
                NotAuthorized(u, r, s) => ~UpdateFind(p, u, r, s)]_vars

C8_Witness ==
  /\ \E p \in Procs : Answered(p, "update", 403)
  /\ \E r \in RequestIds : requests[r].status = "accepted"
  /\ \E r \in RequestIds : requests[r].status = "pending"

\* C9: accept of a pending request by its donor writes status accepted to the
\* request, then writes status claimed and isAvailable = false to the
\* request's listing and answers 200.
C9_AcceptClaimsListing ==
  [][\A p \in Procs :
       /\ (Writes(p, {"accepted"}) /\ requests[h[p].rid].status = "pending") =>
            /\ requests' = [requests EXCEPT ![h[p].rid].status = "accepted"]
            /\ foods' = foods
            /\ ~Answers(p)
       /\ (h[p].status = "accepted" /\ Answers(p)) =>
            /\ Answered(p, "update", 200)'
            /\ requests' = requests
            /\ foods' = [foods EXCEPT
                           ![h[p].food].status = "claimed",
                           ![h[p].food].isAvailable = FALSE]
            /\ RequestsOn(h[p].food, {"accepted"}) # {}]_vars

C9_Witness ==
  /\ \E p \in Procs : Answered(p, "update", 200)
  /\ \E f \in DOMAIN foods :
       /\ foods[f].status = "claimed" /\ ~foods[f].isAvailable
       /\ RequestsOn(f, {"accepted"}) # {}
       /\ RequestsOn(f, {"pending"}) = {}

\* C10: when a reject or cancel answers, the listing of the request is
\* available if no request on it is pending or accepted, and is as it was
\* before the call if one is.
C10_RevertIffNoneActive ==
  [][\A p \in Procs :
       (h[p].status \in {"rejected", "cancelled"} /\ Answers(p)) =>
         LET f == h[p].food IN
         /\ Answered(p, "update", 200)'
         /\ requests' = requests
         /\ \A g \in DOMAIN foods : g # f => foods'[g] = foods[g]
         /\ IF RequestsOn(f, ActiveStatuses) = {}
            THEN foods'[f] = [foods[f] EXCEPT !.status = "available",
                                              !.isAvailable = TRUE]
            ELSE foods'[f] = foods[f]]_vars

\* R1 rejected while R2 is still pending: the listing stays requested
C10_Witness ==
  /\ \E p \in Procs : Answered(p, "update", 200)
  /\ requests # << >>
  /\ requests[1].status = "rejected"
  /\ RequestsOn(requests[1].foodItem, {"pending"}) # {}
  /\ RequestsOn(requests[1].foodItem, {"accepted", "completed", "cancelled"}) = {}
  /\ foods[requests[1].foodItem].status = "requested"

\* C11: a listing on which some request is completed has status claimed, in
\* every state reached by request operations (create, accept, reject, cancel,
\* complete) after the completion.
C11_CompletedStaysClaimed ==
  \A f \in DOMAIN foods :
    RequestsOn(f, {"completed"}) # {} => foods[f].status = "claimed"

\* ---------------------------------------------------------------- chat claims
ChatNos == 1..Len(chats)

ChatMoves(p) == ch'[p] # ch[p]

ChatCalls(p, op) == ch[p].pc \in {"idle", "done"} /\ ChatMoves(p) /\ ch'[p].op = op

ChatAnswers(p) == ChatMoves(p) /\ ch'[p].pc = "done"

ChatAnswered(p, op, c) == ch[p].pc = "done" /\ ch[p].op = op /\ ch[p].code = c

\* the chats of the unordered pair {a, b} on listing f
ChatsOf(a, b, f) ==
  {i \in ChatNos : Range(chats[i].participants) = {a, b} /\ chats[i].foodItem = f}

OneChatPerTriple ==
  \A i, j \in ChatNos :
    (/\ Cardinality(Range(chats[i].participants)) = 2
     /\ Range(chats[i].participants) = Range(chats[j].participants)
     /\ chats[i].foodItem = chats[j].foodItem) => i = j

\* C12: findOrCreateChat(a, b, f) returns the chat of {a, b} and f when one
\* exists and leaves the store as it is; it stores a new chat, with an empty
\* log and an empty unread map, only when none exists; and no two chats share
\* the participant pair and the listing, also after concurrent calls.
C12_FindOrCreateOnce ==
  [][/\ \A p \in Procs :
          /\ (ChatCalls(p, "findOrCreate") /\ ChatAnswers(p)) =>
               /\ chats' = chats
               /\ ch'[p].cid \in ChatNos
          /\ (ch[p].pc = "f_save" /\ ch[p].user # ch[p].other /\ ChatMoves(p)) =>
               /\ ChatsOf(ch[p].user, ch[p].other, ch[p].food) = {}
               /\ chats' = Append(chats, NewChat(<<ch[p].user, ch[p].other>>,
                                                 ch[p].food))
     /\ OneChatPerTriple']_vars

\* the unread counter of user k in a stored chat, 0 when the map has no entry
Unread(doc, k) == IF k \in DOMAIN doc.unreadCount THEN doc.unreadCount[k] ELSE 0

\* every chat but the i-th is as it was
OtherChatsUnchanged(i) ==
  /\ Len(chats') = Len(chats)
  /\ \A j \in ChatNos : j # i => chats'[j] = chats[j]

\* C13: a message post that answers 201 appends exactly one message (the
\* sender, the trimmed content, unread) at the end of the chat's log, sets
\* lastMessage to it, adds 1 to the unread counter of every participant but
\* the sender, and leaves the sender's counter and the earlier messages alone.
C13_AppendContract ==
  [][\A p \in Procs :
       (ch[p].pc = "m_save" /\ ChatAnswered(p, "post", 201)') =>
         LET i   == ch[p].cid
             u   == ch[p].user
             old == chats[i]
             new == chats'[i]
             n   == Len(old.messages)
         IN  /\ OtherChatsUnchanged(i)
             /\ Len(new.messages) = n + 1
             /\ \A k \in 1..n : new.messages[k] = old.messages[k]
             /\ new.messages[n + 1].sender = u
             /\ new.messages[n + 1].content = "hi"
             /\ ~new.messages[n + 1].isRead
             /\ new.lastMessage = new.messages[n + 1]
             /\ new.participants = old.participants
             /\ \A k \in ChatUsers :
                  Unread(new, k) = IF k \in Range(old.participants) /\ k # u
                                   THEN Unread(old, k) + 1
                                   ELSE Unread(old, k)]_vars

C13_Witness ==
  \E p \in Procs :
    /\ ChatAnswered(p, "post", 201)
    /\ Len(chats[ch[p].cid].messages) >= 2
    /\ \E k \in ChatUsers : Unread(chats[ch[p].cid], k) = 2
    /\ \E k \in ChatNos : \E m \in Range(chats[k].messages) : m.isRead

\* C14: a mark-read by participant u that answers 200 sets isRead on every
\* message of the chat not sent by u, leaves the messages sent by u as they
\* were, sets u's unread counter to 0 and leaves every other counter alone.
C14_MarkReadContract ==
  [][\A p \in Procs :
       (ch[p].pc = "r_save" /\ ChatAnswered(p, "read", 200)') =>
         LET i   == ch[p].cid
             u   == ch[p].user
             old == chats[i]
             new == chats'[i]
         IN  /\ OtherChatsUnchanged(i)
             /\ Len(new.messages) = Len(old.messages)
             /\ \A k \in 1..Len(old.messages) :
                  new.messages[k] = IF old.messages[k].sender # u
                                    THEN [old.messages[k] EXCEPT !.isRead = TRUE]
                                    ELSE old.messages[k]
             /\ new.lastMessage = old.lastMessage
             /\ Unread(new, u) = 0
             /\ \A k \in ChatUsers \ {u} : Unread(new, k) = Unread(old, k)]_vars

\* A has sent 3 messages, B has marked the chat read: all 3 are read and B's
\* counter is 0
C14_Witness ==
  \E p \in Procs :
    /\ ChatAnswered(p, "read", 200)
    /\ LET doc == chats[ch[p].cid]
       IN  /\ Len(doc.messages) = 3
           /\ \A k \in 1..3 : doc.messages[k].sender # ch[p].user
                              /\ doc.messages[k].isRead
           /\ ch[p].user \in DOMAIN doc.unreadCount
           /\ doc.unreadCount[ch[p].user] = 0

\* C15: a mark-read that repeats the call just answered (same chat, same
\* user, nothing in between) answers 200 and leaves every chat as the first
\* call left it.
C15_MarkReadIdempotent ==
  [][\A p \in Procs :
       (ch[p].pc = "r_save" /\ ch[p].again /\ ChatMoves(p)) =>
         /\ chats' = chats
         /\ ChatAnswered(p, "read", 200)']_vars

C15_Witness ==
  \E p \in Procs :
    /\ ChatAnswered(p, "read", 200) /\ ch[p].again
    /\ LET doc == chats[ch[p].cid]
       IN  /\ Len(doc.messages) >= 2
           /\ \A k \in 1..Len(doc.messages) :
                doc.messages[k].sender # ch[p].user /\ doc.messages[k].isRead

\* C16: a message post or a mark-read answers 404 when the chat id resolves
\* to no chat and 403 when the caller is not among the chat's participants,
\* and in both cases no chat changes; a call by a participant is not refused.
C16_RefusedChangesNothing ==
  [][\A p \in Procs :
       (ChatCalls(p, "post") \/ ChatCalls(p, "read")) =>
         LET i == ch'[p].cid
             u == ch'[p].user
         IN  /\ ch'[p].pc = "done" =>
                  /\ chats' = chats
                  /\ i \notin ChatNos => ch'[p].code = 404
                  /\ i \in ChatNos =>
                       /\ ch'[p].code = 403
                       /\ u \notin Range(chats[i].participants)
             /\ ch'[p].pc # "done" =>
                  /\ i \in ChatNos
                  /\ u \in Range(chats[i].participants)
                  /\ chats' = chats]_vars

C16_Witness ==
  /\ \E p \in Procs : ChatAnswered(p, "read", 403) /\ ch[p].cid \in ChatNos
  /\ \E i \in ChatNos : \E k \in ChatUsers : Unread(chats[i], k) > 0

\* ---------------------------------------------------------------- gateway claims
ValidTokens == {"t-d1", "t-r1"}

TokenUser(t) == IF t = "t-d1" THEN "d1" ELSE "r1"

\* the step is an event of connection s that the gateway processes
Processes(s) ==
  \/ \E room \in RoomArgs : JoinChat(s, room) \/ LeaveChat(s, room)
  \/ \E room \in RoomArgs, ev \in {"user-typing", "user-stop-typing"} :
       Typing(s, room, ev)
  \/ SetOnline(s)
  \/ Disconnect(s)
  \/ \E p \in Procs, c \in ChatIdArgs, r \in ReceiverArgs, x \in SendContents :
       SendMessage(p, s, c, x, r)

LogPos(chatId, content) ==
  LET doc == IF \E i \in ChatNos : ChatIds[i] = chatId
             THEN chats[CHOOSE i \in ChatNos : ChatIds[i] = chatId]
             ELSE NullChat
  IN  IF \E k \in 1..Len(doc.messages) : doc.messages[k].content = content
      THEN CHOOSE k \in 1..Len(doc.messages) : doc.messages[k].content = content
      ELSE 0

\* every new-message and message-notification a connection holds is of a
\* message that is in the log of its chat
DeliveredArePersisted ==
  \A t \in Sockets : \A k \in 1..Len(sockets[t].inbox) :
    LET e == sockets[t].inbox[k]
    IN  e.ev \in {"new-message", "message-notification"}
          => LogPos(e.chatId, e.content) > 0

\* C18: a send-message event whose chatId names a chat uses that chat; one
\* whose chatId names none stores a new chat of the sender and receiverId;
\* the message is then stored in the chat, and new-message and
\* message-notification are emitted only after that.
C18_SendResolvesOrCreates ==
  [][/\ \A p \in Procs :
          /\ GwFind(p, TRUE) =>
               IF \E i \in ChatNos : ChatIds[i] = gw[p].chatId
               THEN gw'[p].pc = "g_save"
               ELSE gw'[p].pc = "g_create"
          /\ GwCreate(p, TRUE) =>
               /\ Len(chats') = Len(chats) + 1
               /\ chats'[Len(chats')].participants
                    = <<gw[p].user, gw[p].receiverId>>
               /\ gw'[p].pc = "g_save"
     /\ DeliveredArePersisted']_vars

\* C19: when the find, the creation or the save of a send-message handler
\* fails, the only emission is one message-error to the sending connection
\* (none when it has gone): every other connection keeps its state, rooms and
\* inbox, no chat changes, and no connection ever holds a new-message or a
\* message-notification of a message that was not stored.
C19_ErrorToSenderOnly ==
  [][/\ \A p \in Procs :
          (gw[p].pc \in {"g_find", "g_create", "g_save"} /\ gw'[p].pc = "idle") =>
            /\ chats' = chats
            /\ \A t \in Sockets :
                 IF t = gw[p].sock /\ sockets[t].state = "connected"
                 THEN /\ sockets'[t].inbox # sockets[t].inbox
                      /\ sockets'[t] =
                           [sockets[t] EXCEPT !.inbox =
                              Append(@, [sockets'[t].inbox[Len(sockets'[t].inbox)]
                                           EXCEPT !.ev = "message-error",
                                                  !.chatId = gw[p].chatId,
                                                  !.content = gw[p].content])]
                 ELSE sockets'[t] = sockets[t]
     /\ DeliveredArePersisted']_vars

\* d1's first message failed and only d1 was told; r1, in the chat room, got
\* the second one
C19_Witness ==
  \E s, t \in Sockets :
    /\ s # t
    /\ \E k \in 1..Len(sockets[s].inbox) :
         /\ sockets[s].inbox[k].ev = "message-error"
         /\ sockets[s].inbox[k].cause \in {"MongoError", "ValidationError"}
         /\ sockets[s].inbox[k].chatId = "c1"
    /\ sockets[t].state = "connected" /\ "c1" \in sockets[t].rooms
    /\ \E k \in 1..Len(sockets[t].inbox) :
         sockets[t].inbox[k].ev = "new-message" /\ sockets[t].inbox[k].content = "m2"
    /\ \A k \in 1..Len(sockets[t].inbox) : sockets[t].inbox[k].ev # "message-error"

\* C20: the new-message events of one chat reach every connection in the
\* order their messages have in the chat's log.
C20_DeliveredInLogOrder ==
  \A t \in Sockets : \A i, j \in 1..Len(sockets[t].inbox) :
    LET a == sockets[t].inbox[i]
        b == sockets[t].inbox[j]
    IN  (/\ i < j
         /\ a.ev = "new-message" /\ b.ev = "new-message"
         /\ a.chatId = b.chatId)
          => LogPos(a.chatId, a.content) < LogPos(b.chatId, b.content)

\* ---------------------------------------------------------------- listing claims
\* C21: a listing whose status is available has no pending or accepted
\* request, in every reachable state, the states between a handler's request
\* write and its listing write included.
C21_AvailableMeansUnclaimed ==
  \A f \in DOMAIN foods :
    foods[f].status = "available" => RequestsOn(f, ActiveStatuses) = {}

\* C22: for each receiver and listing at most one request is pending or
\* accepted, in every reachable state.
C22_OneActivePerReceiver ==
  \A f \in DOMAIN foods, u \in Users :
    Cardinality({r \in RequestsOn(f, ActiveStatuses) :
                   requests[r].receiver = u}) <= 1

\* C23: a listing's status and availability.isAvailable agree after every
\* operation: isAvailable is true when the status is available and false when
\* it is requested, claimed, expired or cancelled.
C23_StatusMatchesAvailability ==
  [][\A f \in DOMAIN foods :
       foods'[f] # foods[f]
         => foods'[f].isAvailable = (foods'[f].status = "available")]_vars

\* C30: once a donor has deactivated a listing (isActive = false, status =
\* cancelled) no later operation changes the listing's status, and every
\* later createRequest on it fails.
Deactivated(f) == ~foods[f].isActive /\ foods[f].status = "cancelled"

C30_DeactivatedStaysCancelled ==
  [][\A f \in DOMAIN foods :
       Deactivated(f)
         => /\ foods'[f].status = "cancelled"
            /\ \A p \in Procs :
                 (Calls(p, "create") /\ h'[p].food = f)
                   => /\ Answered(p, "create", 400)'
                      /\ StoreUnchanged]_vars

\* C24: when the request write of createRequest or updateStatus succeeds
\* and the listing read or write after it fails, the store is what it was
\* before the call: a handler that answers with the error has changed
\* neither collection.
C24_FailureChangesNothing ==
  [][\A p \in Procs :
       (Answers(p) /\ h'[p].code = SaveError) => StoreUnchanged]_vars

\* ---------------------------------------------------------------- chat invariants
\* the messages of doc that user u did not send
SentByOthers(doc, u) == {k \in 1..Len(doc.messages) : doc.messages[k].sender # u}

\* C25: message posts that overlap on one chat lose no update: a post that
\* answers 201 has appended its message to the stored log, and once every
\* post has answered, each participant's unread counter equals the number of
\* messages the other participants have posted.
C25_ConcurrentAppendsKept ==
  [][/\ \A p \in Procs :
          (ch[p].pc = "m_save" /\ ChatAnswered(p, "post", 201)')
            => chats'[ch[p].cid].messages =
                 Append(chats[ch[p].cid].messages,
                        [sender |-> ch[p].user, content |-> Trim(ch[p].content),
                         isRead |-> FALSE])
     /\ AllChatIdle'
          => \A i \in ChatNos : \A u \in Range(chats'[i].participants) :
               Unread(chats'[i], u) = Cardinality(SentByOthers(chats'[i], u))]_vars

\* C26: every stored chat has at least 2 participants and no participant
\* twice, after every creation and mutation; creating a chat whose two
\* participants are one user is rejected and stores nothing.
ParticipantsValid(doc) ==
  /\ Len(doc.participants) >= 2
  /\ Cardinality(Range(doc.participants)) = Len(doc.participants)

C26_ParticipantsDistinct ==
  [][/\ \A i \in 1..Len(chats') : ParticipantsValid(chats'[i])
     /\ \A p \in Procs :
          (ch[p].pc = "f_save" /\ ch[p].user = ch[p].other /\ ChatMoves(p))
            => /\ ChatAnswered(p, "findOrCreate", SaveError)'
               /\ chats' = chats]_vars

\* ---------------------------------------------------------------- gateway invariants
\* C27: the room named by a user's id holds exactly the connected
\* connections authenticated as that user, in every reachable state; a
\* connection that is not connected is in no room.
C27_PersonalRoomIsOwn ==
  /\ \A u \in Users :
       {t \in Sockets : u \in sockets[t].rooms}
         = {t \in Sockets : sockets[t].state = "connected" /\ sockets[t].user = u}
  /\ \A t \in Sockets : sockets[t].state # "connected" => sockets[t].rooms = {}

\* C28: every message of a chat's log was sent by a participant of that
\* chat, in every reachable state.
C28_SendersAreParticipants ==
  \A i \in ChatNos : \A k \in 1..Len(chats[i].messages) :
    chats[i].messages[k].sender \in Range(chats[i].participants)

\* C29: in a chat of two participants each participant's unread counter (0
\* when the map has no entry) equals the number of messages of the other
\* participant whose isRead flag is false, in every reachable state.
UnreadFromOthers(doc, u) ==
  {k \in SentByOthers(doc, u) : ~doc.messages[k].isRead}

C29_CounterMatchesLog ==
  \A i \in ChatNos :
    Len(chats[i].participants) = 2
      => \A u \in Range(chats[i].participants) :
           Unread(chats[i], u) = Cardinality(UnreadFromOthers(chats[i], u))

====
